---- MODULE Spec2Model ----
(***************************************************************************)
(* Verification model of passwordentropy.com's scoring library             *)
(* (calculations.ts, newest revision: src/unnamed/part_001 lines 262-674). *)
(*                                                                         *)
(* Two state machines share the module:                                    *)
(*   Spec      the HIBP breach lookup (checkHIBP / queryHIBPRange), an     *)
(*             asynchronous protocol with cancellation;                    *)
(*   CalcSpec  the pure scoring functions, applied to inputs drawn from    *)
(*             bounded sets.                                               *)
(*                                                                         *)
(* Numbers.  JavaScript numbers are modelled in fixed point:               *)
(*   - an entropy is an integer number of milli-bits (25.0 bits = 25000),  *)
(*     or NaN, or undefined;                                               *)
(*   - a duration in seconds is zero, NaN, or a positive real held by its  *)
(*     base-2 logarithm in milli-bits (so that 2^entropy / 2 / rate stays  *)
(*     inside TLC's 32-bit integers).  Division by a constant subtracts    *)
(*     logarithms, and x < c compares logarithms.                          *)
(***************************************************************************)
EXTENDS Integers, Sequences, FiniteSets, TLC

VARIABLES
    \* ---- breach lookup (Spec) ----
    pc,          \* pc[i]: position of lookup i inside checkHIBP/queryHIBPRange
    password,    \* password[i]: argument of checkHIBP
    aborted,     \* aborted[i]: signal.aborted of lookup i's AbortSignal
    abortedAt,   \* abortedAt[i]: where lookup i stood when its signal fired
    hashHex,     \* hashHex[i]: local of checkHIBP (line 578)
    request,     \* request[i]: the request lookup i handed to fetch
    response,    \* response[i]: the response lookup i holds (none once fetch or
                 \* text() has rejected)
    result,      \* result[i]: value the checkHIBP promise resolved to
    threw,       \* threw[i]: the checkHIBP promise rejected
    \* ---- pure functions (CalcSpec) ----
    call         \* the last call of a scoring function: [fn, args, ret]

lookupVars == <<pc, password, aborted, abortedAt, hashHex, request, response, result, threw>>
calcVars == <<call>>
vars == <<lookupVars, calcVars>>

(***************************************************************************)
(* JavaScript values                                                       *)
(***************************************************************************)
Num(v) == [t |-> "num", v |-> v]
NaN == [t |-> "nan", v |-> 0]
Undefined == [t |-> "undef", v |-> 0]
IsNum(a) == a.t = "num"

\* ToNumber: undefined converts to NaN
ToNumber(a) == IF a.t = "undef" THEN NaN ELSE a

\* a === b for a numeric literal b (NaN and undefined are never === a number)
StrictEqNum(a, n) == a.t = "num" /\ a.v = n

\* a < n and a > n for a number literal n: false when a is NaN or undefined
LtNum(a, n) == LET x == ToNumber(a) IN x.t = "num" /\ x.v < n
GtNum(a, n) == LET x == ToNumber(a) IN x.t = "num" /\ x.v > n

\* Math.min(a, b): NaN when either argument converts to NaN
MathMin(a, b) ==
    LET x == ToNumber(a)
        y == ToNumber(b)
    IN  IF x.t = "nan" \/ y.t = "nan" THEN NaN
        ELSE IF x.v <= y.v THEN x ELSE y

\* Math.max(a, b): NaN when either argument converts to NaN
MathMax(a, b) ==
    LET x == ToNumber(a)
        y == ToNumber(b)
    IN  IF x.t = "nan" \/ y.t = "nan" THEN NaN
        ELSE IF x.v >= y.v THEN x ELSE y

(***************************************************************************)
(* Math.log2 in fixed point: the integer part by halving, twelve fraction  *)
(* bits by repeated squaring of a 15-bit mantissa, the result truncated to *)
(* milli-bits.                                                             *)
(***************************************************************************)
RECURSIVE FloorLog2(_)
FloorLog2(n) == IF n < 2 THEN 0 ELSE 1 + FloorLog2(n \div 2)

Mantissa(n) ==
    LET q == FloorLog2(n)
    IN  IF q <= 14 THEN n * 2^(14 - q) ELSE n \div 2^(q - 14)

RECURSIVE FracBits(_, _)
FracBits(y, k) ==
    IF k = 0 THEN 0
    ELSE LET y2 == (y * y) \div 2^14
         IN  IF y2 >= 2^15 THEN 2^(k - 1) + FracBits(y2 \div 2, k - 1)
             ELSE FracBits(y2, k - 1)

\* log2(n) in milli-bits, n a positive integer
Log2Milli(n) == FloorLog2(n) * 1000 + (FracBits(Mantissa(n), 12) * 1000) \div 4096

RECURSIVE Log2Pow10(_)
Log2Pow10(x) == IF x <= 9 THEN Log2Milli(10^x) ELSE Log2Milli(10^9) + Log2Pow10(x - 9)

\* log2(m * 10^x) in milli-bits: the logarithm of a decimal literal m e x
Lg(m, x) == Log2Milli(m) + Log2Pow10(x)

(***************************************************************************)
(* calculatePenalizedEntropy (part_001 lines 642-675)                      *)
(***************************************************************************)
\* const C = 1_000_000
ZipfC == 1000000
\* const s = 0.78, in hundredths
ZipfS100 == 78
\* const breachedEntropyCap = 25.0, in milli-bits
breachedEntropyCap == 25000

\* const frequency = Math.min(breachCount, C)
frequencyUnclamped(breachCount) == ToNumber(breachCount)
frequency(breachCount) == MathMin(breachCount, Num(ZipfC))

\* log2 of Math.pow(C / frequency, 1 / s), in milli-bits: log2(C / f) / s.
\* A negative base with the fractional exponent 1/s is NaN.
powLog2(f) ==
    IF f.t # "num" THEN NaN
    ELSE IF f.v <= 0 THEN NaN
    ELSE Num(((Log2Milli(ZipfC) - Log2Milli(f.v)) * 100) \div ZipfS100)

\* log2 of rank = Math.max(1, Math.pow(...)): max(1, r) is max(0, log2 r)
rankLog2(f) == MathMax(Num(0), powLog2(f))

\* const penalizedEntropy = Math.log2(rank)
penalizedEntropy(breachCount) == rankLog2(frequency(breachCount))

\* finalEntropy = Math.min(originalEntropy, penalizedEntropy, breachedEntropyCap)
finalEntropyNoCap(originalEntropy, breachCount) ==
    MathMin(originalEntropy, penalizedEntropy(breachCount))
finalEntropySkippingNaN(originalEntropy, breachCount) ==
    IF ToNumber(originalEntropy).t = "nan"
    THEN MathMin(penalizedEntropy(breachCount), Num(breachedEntropyCap))
    ELSE MathMin(MathMin(originalEntropy, penalizedEntropy(breachCount)),
                 Num(breachedEntropyCap))
finalEntropy(originalEntropy, breachCount) ==
    MathMin(MathMin(originalEntropy, penalizedEntropy(breachCount)), Num(breachedEntropyCap))

PenalizeAlways(originalEntropy, breachCount) ==
    [entropy |-> finalEntropy(originalEntropy, breachCount), isPenalized |-> TRUE]
calculatePenalizedEntropy(originalEntropy, breachCount) ==
    IF StrictEqNum(breachCount, 0)
    THEN [entropy |-> originalEntropy, isPenalized |-> FALSE]
    ELSE [entropy |-> finalEntropy(originalEntropy, breachCount),
          isPenalized |-> GtNum(breachCount, 0)]

(***************************************************************************)
(* Durations.  SecZero is 0 seconds, SecNaN is NaN, Sec(lg) is the         *)
(* positive duration 2^(lg/1000) seconds.                                  *)
(***************************************************************************)
SecZero == [t |-> "zero", lg |-> 0]
SecNaN == [t |-> "nan", lg |-> 0]
Sec(lg) == [t |-> "pos", lg |-> lg]

\* s < c for a positive constant c given by its logarithm: false for NaN
SecLt(s, cLg) == s.t = "zero" \/ (s.t = "pos" /\ s.lg < cLg)

\* s / c for a positive constant c given by its logarithm
SecDiv(s, cLg) == IF s.t = "pos" THEN Sec(s.lg - cLg) ELSE s

\* Math.pow(2, entropy): NaN for NaN and for undefined
Pow2(entropy) ==
    LET x == ToNumber(entropy)
    IN  IF x.t = "nan" THEN SecNaN ELSE Sec(x.v)

\* Math.round(2^(lg/1000)): the largest n with n - 0.5 <= 2^(lg/1000), found by
\* bisection on log2(2n - 1) <= lg + 1
RoundPred(n, lg) == n = 0 \/ Log2Milli(2 * n - 1) <= lg + 1000

RECURSIVE RoundSearch(_, _, _)
RoundSearch(lo, hi, lg) ==
    IF hi - lo <= 1 THEN lo
    ELSE LET mid == (lo + hi) \div 2
         IN  IF RoundPred(mid, lg) THEN RoundSearch(mid, hi, lg)
             ELSE RoundSearch(lo, mid, lg)

MathRound(s) ==
    IF s.t = "pos" THEN RoundSearch(0, 4096, s.lg) ELSE 0

(***************************************************************************)
(* hashRates, gpuScales, hashAlgorithms (part_001 lines 291-342)           *)
(***************************************************************************)
\* each rate a decimal literal m * 10^x hashes per second
hashRates ==
    [none     |-> [m |-> 1000, x |-> 9],
     md5      |-> [m |-> 2206, x |-> 8],
     sha1     |-> [m |-> 702,  x |-> 8],
     sha512   |-> [m |-> 10,   x |-> 9],
     pbkdf2   |-> [m |-> 36,   x |-> 3],
     bcrypt   |-> [m |-> 95,   x |-> 2],
     scrypt   |-> [m |-> 776,  x |-> 1],
     argon2id |-> [m |-> 22,   x |-> 2]]

gpuScales == {1, 10, 100, 1000, 10000, 1000000}

hashAlgorithms == {"md5", "sha1", "sha512", "pbkdf2", "bcrypt", "scrypt", "argon2id"}

\* property names every object inherits from Object.prototype (a sample)
ObjectPrototypeKeys == {"toString", "constructor"}

\* hashRates[hashKey]: an own rate, an inherited function, or undefined
hashRatesGet(hashKey) ==
    IF hashKey \in DOMAIN hashRates
    THEN [t |-> "num", lg |-> Lg(hashRates[hashKey].m, hashRates[hashKey].x)]
    ELSE IF hashKey \in ObjectPrototypeKeys THEN [t |-> "fn", lg |-> 0]
    ELSE [t |-> "undef", lg |-> 0]

(***************************************************************************)
(* calculateEntropy (part_001 lines 394-400).  zxcvbn is an external       *)
(* estimator: guessesLog10 is its answer, in thousandths.                  *)
(***************************************************************************)
calculateEntropy(pw, guessesLog10) ==
    IF Len(pw) = 0 THEN Undefined
    ELSE Num((guessesLog10 * Log2Milli(10)) \div 1000)

(***************************************************************************)
(* calculateCrackTime (part_001 lines 407-424)                             *)
(***************************************************************************)
calculateCrackTime(entropy, hashKey, gpuCount) ==
    IF StrictEqNum(entropy, 0) THEN SecZero
    ELSE LET got == hashRatesGet(hashKey)
             \* hashRates[hashKey] || hashRates.sha512: every own rate is truthy
             hashRate == IF got.t = "undef" THEN hashRatesGet("sha512") ELSE got
             totalCombinations == Pow2(entropy)
             averageAttempts == SecDiv(totalCombinations, Lg(2, 0))
         IN  \* a function times a number is NaN, and x / NaN is NaN
             IF hashRate.t = "fn" THEN SecNaN
             ELSE SecDiv(averageAttempts, hashRate.lg + Log2Milli(gpuCount))

(***************************************************************************)
(* formatCrackTime (part_001 lines 430-455): [n, unit], the number shown   *)
(* and the unit after it.  InfinitySymbol stands for the sign U+221E.      *)
(***************************************************************************)
InfinitySymbol == "oo"
Text(n, unit) == [n |-> n, unit |-> unit]

formatCrackTimeSecondCutoff(seconds) ==
    LET minutes == SecDiv(seconds, Lg(60, 0))
        hours == SecDiv(minutes, Lg(60, 0))
        days == SecDiv(hours, Lg(24, 0))
        months == SecDiv(days, Lg(30, 0))
        years == SecDiv(days, Lg(36525, 0) - Lg(100, 0))
    IN  IF SecLt(seconds, Lg(1, 0)) THEN Text(0, "Instant")
        ELSE IF SecLt(minutes, Lg(60, 0)) THEN Text(MathRound(minutes), "min")
        ELSE IF SecLt(hours, Lg(24, 0)) THEN Text(MathRound(hours), "hrs")
        ELSE IF SecLt(days, Lg(30, 0)) THEN Text(MathRound(days), "days")
        ELSE IF SecLt(months, Lg(12, 0)) THEN Text(MathRound(months), "mo")
        ELSE IF SecLt(years, Lg(1000, 0)) THEN Text(MathRound(years), "yrs")
        ELSE IF SecLt(years, Lg(1, 6)) THEN Text(MathRound(SecDiv(years, Lg(1000, 0))), "k yrs")
        ELSE IF SecLt(years, Lg(1, 9)) THEN Text(MathRound(SecDiv(years, Lg(1, 6))), "M yrs")
        ELSE IF SecLt(years, Lg(1, 12)) THEN Text(MathRound(SecDiv(years, Lg(1, 9))), "B yrs")
        ELSE IF SecLt(years, Lg(1, 15)) THEN Text(MathRound(SecDiv(years, Lg(1, 12))), "T yrs")
        ELSE Text(0, InfinitySymbol)
formatCrackTime(seconds) ==
    LET minutes == SecDiv(seconds, Lg(60, 0))
        hours == SecDiv(minutes, Lg(60, 0))
        days == SecDiv(hours, Lg(24, 0))
        months == SecDiv(days, Lg(30, 0))
        years == SecDiv(days, Lg(36525, 0) - Lg(100, 0))
    IN  IF SecLt(seconds, Lg(60, 0)) THEN Text(0, "Instant")
        ELSE IF SecLt(minutes, Lg(60, 0)) THEN Text(MathRound(minutes), "min")
        ELSE IF SecLt(hours, Lg(24, 0)) THEN Text(MathRound(hours), "hrs")
        ELSE IF SecLt(days, Lg(30, 0)) THEN Text(MathRound(days), "days")
        ELSE IF SecLt(months, Lg(12, 0)) THEN Text(MathRound(months), "mo")
        ELSE IF SecLt(years, Lg(1000, 0)) THEN Text(MathRound(years), "yrs")
        ELSE IF SecLt(years, Lg(1, 6)) THEN Text(MathRound(SecDiv(years, Lg(1000, 0))), "k yrs")
        ELSE IF SecLt(years, Lg(1, 9)) THEN Text(MathRound(SecDiv(years, Lg(1, 6))), "M yrs")
        ELSE IF SecLt(years, Lg(1, 12)) THEN Text(MathRound(SecDiv(years, Lg(1, 9))), "B yrs")
        ELSE IF SecLt(years, Lg(1, 15)) THEN Text(MathRound(SecDiv(years, Lg(1, 12))), "T yrs")
        ELSE Text(0, InfinitySymbol)

(***************************************************************************)
(* getCrackTimeTier (part_001 lines 465-471)                               *)
(***************************************************************************)
getCrackTimeTierUnordered(seconds) ==
    IF SecLt(seconds, Lg(60 * 60 * 24, 0)) THEN "tier-1"
    ELSE IF SecLt(seconds, Lg(31557600, 0)) THEN "tier-3"
    ELSE IF SecLt(seconds, Lg(31557, 7)) THEN "tier-2"
    ELSE IF SecLt(seconds, Lg(31557, 12)) THEN "tier-4"
    ELSE "tier-5"
getCrackTimeTier(seconds) ==
    IF SecLt(seconds, Lg(60 * 60 * 24, 0)) THEN "tier-1"
    ELSE IF SecLt(seconds, Lg(31557600, 0)) THEN "tier-2"
    ELSE IF SecLt(seconds, Lg(31557, 7)) THEN "tier-3"
    ELSE IF SecLt(seconds, Lg(31557, 12)) THEN "tier-4"
    ELSE "tier-5"

(***************************************************************************)
(* getCellDisplay (part_001 lines 484-495)                                 *)
(***************************************************************************)
getCellDisplay(entropy, hashKey, gpuCount) ==
    LET crackTime == calculateCrackTime(entropy, hashKey, gpuCount)
    IN  [text |-> formatCrackTime(crackTime), tier |-> getCrackTimeTier(crackTime)]

(***************************************************************************)
(* getStrengthLabel, getStrengthTier (part_001 lines 500-520)              *)
(***************************************************************************)
getStrengthLabelUnordered(entropy) ==
    IF entropy.t = "undef" THEN "-"
    ELSE IF LtNum(entropy, 28000) THEN "Very Weak"
    ELSE IF LtNum(entropy, 36000) THEN "Moderate"
    ELSE IF LtNum(entropy, 60000) THEN "Weak"
    ELSE IF LtNum(entropy, 80000) THEN "Strong"
    ELSE IF LtNum(entropy, 100000) THEN "Very Strong"
    ELSE "Excellent"
getStrengthLabelNoUndefined(entropy) ==
    IF LtNum(entropy, 28000) THEN "Very Weak"
    ELSE IF LtNum(entropy, 36000) THEN "Weak"
    ELSE IF LtNum(entropy, 60000) THEN "Moderate"
    ELSE IF LtNum(entropy, 80000) THEN "Strong"
    ELSE IF LtNum(entropy, 100000) THEN "Very Strong"
    ELSE "Excellent"
getStrengthLabel(entropy) ==
    IF entropy.t = "undef" THEN "-"
    ELSE IF LtNum(entropy, 28000) THEN "Very Weak"
    ELSE IF LtNum(entropy, 36000) THEN "Weak"
    ELSE IF LtNum(entropy, 60000) THEN "Moderate"
    ELSE IF LtNum(entropy, 80000) THEN "Strong"
    ELSE IF LtNum(entropy, 100000) THEN "Very Strong"
    ELSE "Excellent"

getStrengthTier(entropy) ==
    IF entropy.t = "undef" THEN ""
    ELSE IF LtNum(entropy, 28000) THEN "tier-2"
    ELSE IF LtNum(entropy, 36000) THEN "tier-2"
    ELSE IF LtNum(entropy, 60000) THEN "tier-3"
    ELSE IF LtNum(entropy, 80000) THEN "tier-5"
    ELSE "tier-5"

(***************************************************************************)
(* Inputs of the scoring functions                                         *)
(***************************************************************************)
MaxEntropyBits == 128

EntropySamples == {b * 1000 + d : b \in 0..MaxEntropyBits, d \in {0, 1, 500}}
EntropyInputs == {Num(v) : v \in EntropySamples} \cup {NaN, Undefined}

BreachSamples == {1, 2, 10, 100, 1000, 10000, 100000, 999999, 1000000, 1000001, 42000000}
BreachInputs == {Num(v) : v \in BreachSamples \cup {0, -1}} \cup {NaN}

HashKeyInputs == DOMAIN hashRates \cup ObjectPrototypeKeys \cup {"unknown"}

\* zxcvbn's guessesLog10, in thousandths
GuessSamples == {0, 3000, 9031, 18664, 30103}

EmptyPassword == <<>>
Passwords ==
    {EmptyPassword,
     <<"p", "a", "s", "s", "w", "o", "r", "d", "1", "2", "3">>,
     <<"h", "u", "n", "t", "e", "r", "2">>}

(***************************************************************************)
(* The scoring entry point consumed by the UI (spec section 6): the        *)
(* entropy of the password, penalized by the breach count, then classified *)
(* and projected onto the hash-profile x attacker-scale matrix.            *)
(***************************************************************************)
scorePassword(pw, guessesLog10, breachCount) ==
    LET entropy == calculateEntropy(pw, guessesLog10)
        penalized == calculatePenalizedEntropy(entropy, breachCount)
    IN  [entropy |-> penalized.entropy,
         breachCount |-> breachCount,
         isPenalized |-> penalized.isPenalized,
         strengthLabel |-> getStrengthLabel(penalized.entropy),
         strengthTier |-> getStrengthTier(penalized.entropy),
         crackTimeMatrix |-> [k \in hashAlgorithms, n \in gpuScales |->
                                 getCellDisplay(penalized.entropy, k, n)]]

(***************************************************************************)
(* Durations passed to formatCrackTime and getCrackTimeTier, as logarithms *)
(* in milli-bits: a grid of half bits from 2^-2 seconds up, and the values *)
(* next to every cutoff the two functions compare against.                 *)
(***************************************************************************)
MaxSecondsBits == 80

\* seconds in a minute, an hour, a day and a year of 365.25 days, as divided
\* out by formatCrackTime
MinuteLg == Lg(60, 0)
HourLg == MinuteLg + Lg(60, 0)
DayLg == HourLg + Lg(24, 0)
YearLg == DayLg + (Lg(36525, 0) - Lg(100, 0))

FormatCutoffs ==
    {MinuteLg, HourLg, DayLg, DayLg + Lg(30, 0), DayLg + Lg(30, 0) + Lg(12, 0),
     YearLg + Lg(1000, 0), YearLg + Lg(1, 6), YearLg + Lg(1, 9),
     YearLg + Lg(1, 12), YearLg + Lg(1, 15)}
TierCutoffs == {Lg(60 * 60 * 24, 0), Lg(31557600, 0), Lg(31557, 7), Lg(31557, 12)}

SecondsSamples ==
    {b * 1000 + d : b \in (0 - 2)..MaxSecondsBits, d \in {0, 500}}
    \cup {c + d : c \in FormatCutoffs \cup TierCutoffs, d \in {0 - 1, 0, 1}}
SecondsInputs == {SecZero, SecNaN} \cup {Sec(lg) : lg \in SecondsSamples}

\* a <= b for two durations: false when either is NaN
SecLe(a, b) ==
    /\ a.t # "nan" /\ b.t # "nan"
    /\ \/ a.t = "zero"
       \/ a.t = "pos" /\ b.t = "pos" /\ a.lg <= b.lg

(***************************************************************************)
(* CalcSpec: one action per scoring function, each recording its call.     *)
(* The functions are pure: one call is in progress at a time.  None of     *)
(* them has a throw statement or calls anything that throws, so every call *)
(* returns (threw is FALSE).                                               *)
(***************************************************************************)
Idle == [fn |-> "none"]

Penalize ==
    /\ call = Idle
    /\ \E e \in EntropyInputs, bc \in BreachInputs :
          call' = [fn |-> "calculatePenalizedEntropy",
                   args |-> [originalEntropy |-> e, breachCount |-> bc],
                   ret |-> calculatePenalizedEntropy(e, bc),
                   threw |-> FALSE]
    /\ UNCHANGED lookupVars

CrackTime ==
    /\ call = Idle
    /\ \E e \in EntropyInputs, k \in HashKeyInputs, n \in gpuScales :
          call' = [fn |-> "calculateCrackTime",
                   args |-> [entropy |-> e, hashKey |-> k, gpuCount |-> n],
                   ret |-> calculateCrackTime(e, k, n),
                   threw |-> FALSE]
    /\ UNCHANGED lookupVars

\* a breach lookup of the empty password answers 0 (checkHIBP, line 576)
Score ==
    /\ call = Idle
    /\ \E pw \in Passwords, g \in GuessSamples, bc \in BreachInputs :
          /\ Len(pw) = 0 => bc = Num(0)
          /\ call' = [fn |-> "score",
                      args |-> [password |-> pw, guessesLog10 |-> g, breachCount |-> bc],
                      ret |-> scorePassword(pw, g, bc),
                      threw |-> FALSE]
    /\ UNCHANGED lookupVars

FormatTime ==
    /\ call = Idle
    /\ \E sec \in SecondsInputs :
          call' = [fn |-> "formatCrackTime",
                   args |-> [seconds |-> sec],
                   ret |-> formatCrackTime(sec),
                   threw |-> FALSE]
    /\ UNCHANGED lookupVars

TimeTier ==
    /\ call = Idle
    /\ \E sec \in SecondsInputs :
          call' = [fn |-> "getCrackTimeTier",
                   args |-> [seconds |-> sec],
                   ret |-> getCrackTimeTier(sec),
                   threw |-> FALSE]
    /\ UNCHANGED lookupVars

CellDisplay ==
    /\ call = Idle
    /\ \E e \in EntropyInputs, k \in HashKeyInputs, n \in gpuScales :
          call' = [fn |-> "getCellDisplay",
                   args |-> [entropy |-> e, hashKey |-> k, gpuCount |-> n],
                   ret |-> getCellDisplay(e, k, n),
                   threw |-> FALSE]
    /\ UNCHANGED lookupVars

StrengthLabel ==
    /\ call = Idle
    /\ \E e \in EntropyInputs :
          call' = [fn |-> "getStrengthLabel",
                   args |-> [entropy |-> e],
                   ret |-> getStrengthLabel(e),
                   threw |-> FALSE]
    /\ UNCHANGED lookupVars

StrengthTier ==
    /\ call = Idle
    /\ \E e \in EntropyInputs :
          call' = [fn |-> "getStrengthTier",
                   args |-> [entropy |-> e],
                   ret |-> getStrengthTier(e),
                   threw |-> FALSE]
    /\ UNCHANGED lookupVars

\* the caller takes the result; the next call starts afresh
TakeResult ==
    /\ call # Idle
    /\ call' = Idle
    /\ UNCHANGED lookupVars

CalcNext ==
    \/ Penalize \/ CrackTime \/ Score
    \/ FormatTime \/ TimeTier \/ CellDisplay
    \/ StrengthLabel \/ StrengthTier
    \/ TakeResult

(***************************************************************************)
(* Strings are sequences of one-character strings; CR and LF stand for the *)
(* carriage return and the line feed.                                      *)
(***************************************************************************)
CR == "CR"
LF == "LF"
CRLF == <<CR, LF>>
DigitChars == <<"0", "1", "2", "3", "4", "5", "6", "7", "8", "9">>
WhiteSpace == {" ", CR, LF}

IsDigit(c) == \E d \in 1..10 : DigitChars[d] = c
DigitVal(c) == (CHOOSE d \in 1..10 : DigitChars[d] = c) - 1

\* String.prototype.slice(from) and slice(from, to), zero-based, to exclusive
Slice(s, from, to) == SubSeq(s, from + 1, IF to < Len(s) THEN to ELSE Len(s))
SliceFrom(s, from) == SubSeq(s, from + 1, Len(s))

\* sep occurs in s at position p (one-based)
OccursAt(s, sep, p) ==
    /\ p + Len(sep) - 1 <= Len(s)
    /\ \A k \in 1..Len(sep) : s[p + k - 1] = sep[k]

\* String.prototype.split(sep) for a non-empty separator
RECURSIVE Split(_, _)
Split(s, sep) ==
    IF \E p \in 1..Len(s) : OccursAt(s, sep, p)
    THEN LET p == CHOOSE q \in 1..Len(s) :
                      /\ OccursAt(s, sep, q)
                      /\ \A r \in 1..(q - 1) : ~OccursAt(s, sep, r)
         IN  <<SubSeq(s, 1, p - 1)>> \o Split(SubSeq(s, p + Len(sep), Len(s)), sep)
    ELSE <<s>>

\* String.prototype.toUpperCase on hexadecimal text
ToUpperCase(s) ==
    [k \in 1..Len(s) |->
        CASE s[k] = "a" -> "A" [] s[k] = "b" -> "B" [] s[k] = "c" -> "C"
          [] s[k] = "d" -> "D" [] s[k] = "e" -> "E" [] s[k] = "f" -> "F"
          [] OTHER -> s[k]]

\* the decimal text of a natural number
RECURSIVE ToDecimal(_)
ToDecimal(n) ==
    IF n < 10 THEN <<DigitChars[n + 1]>>
    ELSE ToDecimal(n \div 10) \o <<DigitChars[(n % 10) + 1]>>

\* parseInt(s, 10) of a string: leading white space, a sign, then the longest
\* run of digits; NaN when there is none
RECURSIVE DropSpace(_)
DropSpace(s) ==
    IF Len(s) > 0 /\ s[1] \in WhiteSpace THEN DropSpace(Tail(s)) ELSE s

RECURSIVE DigitsValue(_, _)
DigitsValue(s, acc) ==
    IF Len(s) > 0 /\ IsDigit(s[1]) THEN DigitsValue(Tail(s), acc * 10 + DigitVal(s[1]))
    ELSE acc

ParseIntString(s) ==
    LET t == DropSpace(s)
        neg == Len(t) > 0 /\ t[1] = "-"
        u == IF Len(t) > 0 /\ t[1] \in {"-", "+"} THEN Tail(t) ELSE t
    IN  IF Len(u) > 0 /\ IsDigit(u[1])
        THEN Num(IF neg THEN 0 - DigitsValue(u, 0) ELSE DigitsValue(u, 0))
        ELSE NaN

\* parseInt(count, 10) where count is a string [t |-> "str", s |-> ...] or
\* undefined (whose text "undefined" holds no digit)
ParseInt(count) == IF count.t = "str" THEN ParseIntString(count.s) ELSE NaN

(***************************************************************************)
(* sha1Hash (part_001 lines 526-539): the SHA-1 digest as hexadecimal      *)
(* text, upper-cased.  The digest itself is the platform's; Sha1Hex holds  *)
(* its value for the passwords of the model.                               *)
(***************************************************************************)
Sha1Hex(pw) ==
    CASE pw = <<>> ->
          <<"d", "a", "3", "9", "a", "3", "e", "e", "5", "e", "6", "b", "4", "b", "0", "d", "3", "2", "5", "5", "b", "f", "e", "f", "9", "5", "6", "0", "1", "8", "9", "0", "a", "f", "d", "8", "0", "7", "0", "9">>
      [] pw = <<"p", "a", "s", "s", "w", "o", "r", "d", "1", "2", "3">> ->
          <<"c", "b", "f", "d", "a", "c", "6", "0", "0", "8", "f", "9", "c", "a", "b", "4", "0", "8", "3", "7", "8", "4", "c", "b", "d", "1", "8", "7", "4", "f", "7", "6", "6", "1", "8", "d", "2", "a", "9", "7">>
      [] pw = <<"h", "u", "n", "t", "e", "r", "2">> ->
          <<"f", "3", "b", "b", "b", "d", "6", "6", "a", "6", "3", "d", "4", "b", "f", "1", "7", "4", "7", "9", "4", "0", "5", "7", "8", "e", "c", "3", "d", "0", "1", "0", "3", "5", "3", "0", "e", "2", "1", "d">>

sha1Hash(pw) == ToUpperCase(Sha1Hex(pw))

(***************************************************************************)
(* checkHIBP (part_001 lines 575-585): the k-anonymity split               *)
(***************************************************************************)
PrefixLen == 5
prefixWhole(h) == SliceFrom(h, 0)
prefix(h) == Slice(h, 0, PrefixLen)
suffix(h) == SliceFrom(h, PrefixLen)

(***************************************************************************)
(* queryHIBPRange (part_001 lines 544-567)                                 *)
(***************************************************************************)
\* the request handed to fetch: the range URL's last segment and the
\* Add-Padding header
NoRequest == [sent |-> FALSE, range |-> <<>>, padding |-> FALSE]
RangeRequest(pfx) == [sent |-> TRUE, range |-> pfx, padding |-> TRUE]

\* const [lineSuffix, count] = line.split(':')
lineSuffix(line) == Split(line, <<":">>)[1]
count(line) ==
    LET parts == Split(line, <<":">>)
    IN  IF Len(parts) >= 2 THEN [t |-> "str", s |-> parts[2]] ELSE [t |-> "undef", s |-> <<>>]

\* the for loop over the lines: the first line whose suffix matches decides
RECURSIVE scanLines(_, _)
scanLines(lines, sfx) ==
    IF Len(lines) = 0 THEN Num(0)
    ELSE IF lineSuffix(lines[1]) = sfx THEN ParseInt(count(lines[1]))
    ELSE scanLines(Tail(lines), sfx)

scanFirstLineOnly(body, sfx) ==
    LET lines == Split(body, CRLF)
    IN  IF lineSuffix(lines[1]) = sfx THEN ParseInt(count(lines[1])) ELSE Num(0)
scanBody(body, sfx) == scanLines(Split(body, CRLF), sfx)

\* catch { return 0 }
catchRethrow == [result |-> Undefined, threw |-> TRUE]
catchMinusOne == [result |-> Num(-1), threw |-> FALSE]
catchResult == [result |-> Num(0), threw |-> FALSE]

(***************************************************************************)
(* The range service's answers.  A response is held by what the server     *)
(* chose to send; BodyText renders it to the text on the wire.             *)
(*   before, after   how many non-matching lines surround the middle line  *)
(*   mid             the line about the queried suffix: absent, a count,   *)
(*                   or malformed (no colon, no count, a count that is no  *)
(*                   number), or a line of garbage                         *)
(*   delim           the line delimiter                                    *)
(***************************************************************************)
MaxPad == 1

\* counts the service reports; every other line reports 7
CountSamples == {0, 3, 42000000}

Lookups == {1, 2}

NoResponse == [kind |-> "none", ok |-> FALSE, before |-> 0, mid |-> "absent", n |-> 0,
               after |-> 0, delim |-> CRLF]
NetworkError == [NoResponse EXCEPT !.kind = "error"]
NotOkResponse == [NoResponse EXCEPT !.kind = "http"]
\* a success status whose body has not arrived yet
OkHeaders == [NoResponse EXCEPT !.kind = "http", !.ok = TRUE]

WellFormedMids == {"absent", "count"}
MalformedMatchMids == {"bare", "empty", "junk"}

OkResponses ==
    {[kind |-> "http", ok |-> TRUE, before |-> b, mid |-> m, n |-> c, after |-> a, delim |-> d] :
        b \in 0..MaxPad, a \in 0..MaxPad,
        m \in WellFormedMids \cup MalformedMatchMids \cup {"garbage"},
        c \in CountSamples, d \in {CRLF, <<LF>>}}

\* the responses the model draws from: one count per line form that shows
\* none, and malformed bodies only with the protocol's own delimiter
IsSample(r) ==
    /\ r.mid # "count" => r.n = 0
    /\ r.mid \notin WellFormedMids => r.delim = CRLF

\* a suffix of the same length that differs from sfx at position k
NonMatching(sfx, k) == [sfx EXCEPT ![k] = IF @ = "0" THEN "1" ELSE "0"]

CountLine(sfx, n) == sfx \o <<":">> \o ToDecimal(n)

MidLines(r, sfx) ==
    CASE r.mid = "absent" -> <<>>
      [] r.mid = "count" -> <<CountLine(sfx, r.n)>>
      [] r.mid = "bare" -> <<sfx>>
      [] r.mid = "empty" -> <<sfx \o <<":">>>>
      [] r.mid = "junk" -> <<sfx \o <<":", "x", "7">>>>
      [] r.mid = "garbage" -> <<<<"<", "h", "t", "m", "l", ">">>>>

ResponseLines(r, sfx) ==
    [k \in 1..r.before |-> CountLine(NonMatching(sfx, k), 7)]
    \o MidLines(r, sfx)
    \o [k \in 1..r.after |-> CountLine(NonMatching(sfx, Len(sfx) + 1 - k), 7)]

RECURSIVE Join(_, _)
Join(lines, delim) ==
    IF Len(lines) = 0 THEN <<>>
    ELSE IF Len(lines) = 1 THEN lines[1]
    ELSE lines[1] \o delim \o Join(Tail(lines), delim)

BodyText(r, sfx) == Join(ResponseLines(r, sfx), r.delim)

(***************************************************************************)
(* Spec: the breach lookups.  Each lookup is one call of checkHIBP with    *)
(* its own password and AbortSignal; a finished slot may be called again.  *)
(***************************************************************************)
\* signal.aborted as the lookup's own fetch sees it
sharedAborted(i) == \E j \in Lookups : aborted[j]
signalAborted(i) == aborted[i]

Settle(i, r) ==
    /\ pc' = [pc EXCEPT ![i] = "done"]
    /\ result' = [result EXCEPT ![i] = r.result]
    /\ threw' = [threw EXCEPT ![i] = r.threw]

Return(v) == [result |-> v, threw |-> FALSE]

StartNoEmptyCheck(i) ==
    /\ pc[i] \in {"idle", "done"}
    /\ \E pw \in Passwords, ab \in BOOLEAN :
          /\ password' = [password EXCEPT ![i] = pw]
          /\ aborted' = [aborted EXCEPT ![i] = ab]
          /\ abortedAt' = [abortedAt EXCEPT ![i] = IF ab THEN "before" ELSE "never"]
    /\ pc' = [pc EXCEPT ![i] = "hash"]
    /\ result' = [result EXCEPT ![i] = Undefined]
    /\ threw' = [threw EXCEPT ![i] = FALSE]
    /\ hashHex' = [hashHex EXCEPT ![i] = <<>>]
    /\ request' = [request EXCEPT ![i] = NoRequest]
    /\ response' = [response EXCEPT ![i] = NoResponse]
    /\ UNCHANGED calcVars

\* checkHIBP is called (lines 575-578), possibly with a signal already aborted
Start(i) ==
    /\ pc[i] \in {"idle", "done"}
    /\ \E pw \in Passwords, ab \in BOOLEAN :
          /\ password' = [password EXCEPT ![i] = pw]
          /\ aborted' = [aborted EXCEPT ![i] = ab]
          /\ abortedAt' = [abortedAt EXCEPT ![i] = IF ab THEN "before" ELSE "never"]
          /\ IF Len(pw) = 0
             THEN Settle(i, Return(Num(0)))
             ELSE /\ pc' = [pc EXCEPT ![i] = "hash"]
                  /\ result' = [result EXCEPT ![i] = Undefined]
                  /\ threw' = [threw EXCEPT ![i] = FALSE]
    /\ hashHex' = [hashHex EXCEPT ![i] = <<>>]
    /\ request' = [request EXCEPT ![i] = NoRequest]
    /\ response' = [response EXCEPT ![i] = NoResponse]
    /\ UNCHANGED calcVars

\* sha1Hash resolves; the hash is split and queryHIBPRange calls fetch
\* (lines 578-584, 546-549)
HashDone(i) ==
    /\ pc[i] = "hash"
    /\ LET h == sha1Hash(password[i])
       IN  /\ hashHex' = [hashHex EXCEPT ![i] = h]
           /\ request' = [request EXCEPT ![i] = RangeRequest(prefix(h))]
    /\ pc' = [pc EXCEPT ![i] = "fetch"]
    /\ UNCHANGED <<password, aborted, abortedAt, response, result, threw, calcVars>>

\* the fetch promise settles (lines 546-551)
FetchSettle(i) ==
    /\ pc[i] = "fetch"
    /\ \/ /\ signalAborted(i)                    \* rejects with an AbortError
          /\ Settle(i, catchResult)
          /\ UNCHANGED response
       \/ /\ ~signalAborted(i)                   \* rejects with a network error
          /\ response' = [response EXCEPT ![i] = NetworkError]
          /\ Settle(i, catchResult)
       \/ /\ ~signalAborted(i)                   \* if (!response.ok) return 0
          /\ response' = [response EXCEPT ![i] = NotOkResponse]
          /\ Settle(i, Return(Num(0)))
       \/ /\ ~signalAborted(i)                   \* a success status: read the body
          /\ response' = [response EXCEPT ![i] = OkHeaders]
          /\ pc' = [pc EXCEPT ![i] = "read"]
          /\ UNCHANGED <<result, threw>>
    /\ UNCHANGED <<password, aborted, abortedAt, hashHex, request, calcVars>>

\* response.text() settles and the lines are scanned (lines 553-566)
ReadSettle(i) ==
    /\ pc[i] = "read"
    /\ \/ /\ signalAborted(i)                    \* the body stream is aborted
          /\ response' = [response EXCEPT ![i] = NoResponse]
          /\ Settle(i, catchResult)
       \/ /\ ~signalAborted(i)                   \* the connection drops mid-body
          /\ response' = [response EXCEPT ![i] = NetworkError]
          /\ Settle(i, catchResult)
       \/ /\ ~signalAborted(i)                   \* the body arrives and is scanned
          /\ \E r \in OkResponses :
                /\ IsSample(r)
                /\ response' = [response EXCEPT ![i] = r]
                /\ Settle(i, Return(scanBody(BodyText(r, suffix(hashHex[i])),
                                             suffix(hashHex[i]))))
    /\ UNCHANGED <<password, aborted, abortedAt, hashHex, request, calcVars>>

\* the caller aborts lookup i's signal while the lookup is in flight
Abort(i) ==
    /\ pc[i] \in {"hash", "fetch", "read"}
    /\ ~aborted[i]
    /\ aborted' = [aborted EXCEPT ![i] = TRUE]
    /\ abortedAt' = [abortedAt EXCEPT ![i] = pc[i]]
    /\ UNCHANGED <<pc, password, hashHex, request, response, result, threw, calcVars>>

Init ==
    /\ pc = [i \in Lookups |-> "idle"]
    /\ password = [i \in Lookups |-> EmptyPassword]
    /\ aborted = [i \in Lookups |-> FALSE]
    /\ abortedAt = [i \in Lookups |-> "never"]
    /\ hashHex = [i \in Lookups |-> <<>>]
    /\ request = [i \in Lookups |-> NoRequest]
    /\ response = [i \in Lookups |-> NoResponse]
    /\ result = [i \in Lookups |-> Undefined]
    /\ threw = [i \in Lookups |-> FALSE]
    /\ call = Idle

Next ==
    \E i \in Lookups :
        Start(i) \/ HashDone(i) \/ FetchSettle(i) \/ ReadSettle(i) \/ Abort(i)

Spec == Init /\ [][Next]_vars

CalcSpec == Init /\ [][CalcNext]_vars

(***************************************************************************)
(* Properties of calculatePenalizedEntropy (CalcSpec)                      *)
(***************************************************************************)
IsPenalizeCall == call.fn = "calculatePenalizedEntropy"

\* C1: for every originalEntropy e >= 0 and every breachCount > 0 the entropy
\* returned by calculatePenalizedEntropy is a number that is >= 0, <= e and
\* <= 25.0 bits.
C1_PenaltyBounded ==
    (/\ IsPenalizeCall
     /\ IsNum(call.args.originalEntropy) /\ call.args.originalEntropy.v >= 0
     /\ IsNum(call.args.breachCount) /\ call.args.breachCount.v > 0)
    => /\ IsNum(call.ret.entropy)
       /\ call.ret.entropy.v >= 0
       /\ call.ret.entropy.v <= call.args.originalEntropy.v
       /\ call.ret.entropy.v <= 25000

\* a password of 62 bits seen once in a breach is cut to the 25-bit cap
C1_Witness ==
    /\ IsPenalizeCall
    /\ call.args.originalEntropy = Num(62000)
    /\ call.args.breachCount = Num(1)
    /\ call.ret.entropy = Num(25000)

\* C2: with breachCount = 0, calculatePenalizedEntropy returns the original
\* entropy unchanged (whatever it is: a number, NaN or undefined) and
\* isPenalized = false.
C2_ZeroCountUnchanged ==
    (IsPenalizeCall /\ call.args.breachCount = Num(0))
    => call.ret = [entropy |-> call.args.originalEntropy, isPenalized |-> FALSE]

C2_Witness ==
    /\ IsPenalizeCall
    /\ call.args.breachCount = Num(0)
    /\ call.args.originalEntropy = Num(62000)
    /\ call.ret.entropy = Num(62000)
    /\ ~call.ret.isPenalized

(***************************************************************************)
(* Properties of the breach lookup (Spec)                                  *)
(***************************************************************************)
Done(i) == pc[i] = "done"

\* the caller's signal fired before the request was issued ("before", "hash"),
\* while the response was awaited ("fetch") or while the body was read ("read")
Cancelled(i) == abortedAt[i] \in {"before", "hash", "fetch", "read"}

\* a network error, or a status that is not a success
TransportFailed(i) ==
    \/ response[i].kind = "error"
    \/ response[i].kind = "http" /\ ~response[i].ok

\* the body was read to its end and scanned
Scanned(i) == Done(i) /\ response[i].kind = "http" /\ response[i].ok

\* the body holds a malformed line
MalformedBody(i) == Scanned(i) /\ response[i].mid \notin WellFormedMids

\* C3: after every failure of the lookup (network error, non-success status,
\* malformed response line, abort) the lookup resolves to 0 and does not
\* reject.
C3_FailureGivesZero ==
    \A i \in Lookups :
        (Done(i) /\ (Cancelled(i) \/ TransportFailed(i) \/ MalformedBody(i)))
        => result[i] = Num(0) /\ ~threw[i]

\* C4: a lookup whose signal fired before the request, while the response was
\* awaited or while the body was read resolves to 0 and does not reject.
C4_AbortGivesZero ==
    \A i \in Lookups :
        (Done(i) /\ Cancelled(i)) => result[i] = Num(0) /\ ~threw[i]

\* one lookup cancelled while its body was read, the other while its response
\* was awaited
C4_Witness ==
    \E i, j \in Lookups :
        /\ Done(i) /\ abortedAt[i] = "read" /\ result[i] = Num(0)
        /\ Done(j) /\ abortedAt[j] = "fetch" /\ result[j] = Num(0)

\* what lookup i returns when it runs alone: a function of its own password
\* and of the answer the service gave it
AloneResult(i) ==
    IF Len(password[i]) = 0 THEN Num(0)
    ELSE IF response[i].kind = "http" /\ response[i].ok
    THEN scanBody(BodyText(response[i], suffix(sha1Hash(password[i]))),
                  suffix(sha1Hash(password[i])))
    ELSE Num(0)

\* C5: a lookup whose own signal is not aborted returns what it returns when
\* run alone, whatever other lookups were started or cancelled: it is never
\* cut short by another lookup's abort (it settles on its own transport
\* outcome), and its result is the function of its own password and response.
C5_LookupsIndependent ==
    \A i \in Lookups :
        (Done(i) /\ ~aborted[i]) =>
            /\ result[i] = AloneResult(i)
            /\ ~threw[i]
            /\ Len(password[i]) > 0 => response[i] # NoResponse

\* a lookup finds its count although the other lookup was cancelled in flight
C5_Witness ==
    \E i, j \in Lookups :
        /\ i # j
        /\ Done(j) /\ Cancelled(j) /\ Len(password[j]) > 0
        /\ Done(i) /\ ~aborted[i] /\ result[i] = Num(42000000)

Contains(s, sub) == \E p \in 1..Len(s) : OccursAt(s, sub, p)

\* C6: the only password-derived data in a request is the first 5 characters
\* of the 40-character digest; the request holds neither the password, nor the
\* digest, nor the digest's remaining 35 characters.
C6_OnlyPrefixSent ==
    \A i \in Lookups :
        request[i].sent =>
            LET h == sha1Hash(password[i])
            IN  /\ Len(h) = 40
                /\ Len(request[i].range) = 5
                /\ request[i].range = SubSeq(h, 1, 5)
                /\ ~Contains(request[i].range, password[i])
                /\ ~Contains(request[i].range, h)
                /\ ~Contains(request[i].range, SubSeq(h, 6, 40))

C6_Witness ==
    \E i \in Lookups :
        /\ request[i].sent
        /\ request[i].range = <<"C", "B", "F", "D", "A">>
        /\ Done(i) /\ result[i] = Num(3)

\* the lookup could not be made: transport failure or cancellation
Unavailable(i) == Done(i) /\ (Cancelled(i) \/ TransportFailed(i))

\* the lookup succeeded and the body holds no line for the suffix
ConfirmedClean(i) ==
    Scanned(i) /\ ~Cancelled(i) /\ response[i].mid = "absent"

SentCount(r) == IF r.mid = "count" THEN Num(r.n) ELSE Num(0)

\* every line of the body is SUFFIX:COUNT
WellFormedBody(i) == Scanned(i) /\ response[i].mid \in WellFormedMids

\* C8 as stated: for every body of newline-delimited SUFFIX:COUNT lines
\* (whether the lines end in CR LF or in LF alone) the lookup returns the
\* count of the line with the queried suffix, wherever the line is, and 0 when
\* there is none.
C8_CountOfMatchingLine ==
    \A i \in Lookups :
        WellFormedBody(i) => result[i] = SentCount(response[i])

\* C8 amended: for every body of SUFFIX:COUNT lines delimited by CR LF the
\* lookup returns the count of the line with the queried suffix, wherever the
\* line is, and 0 when there is none.
C8_CountOfMatchingLineCRLF ==
    \A i \in Lookups :
        (WellFormedBody(i) /\ response[i].delim = CRLF)
        => result[i] = SentCount(response[i])

\* the matching line stands between two other lines
C8_Witness ==
    \E i \in Lookups :
        /\ WellFormedBody(i) /\ response[i].delim = CRLF
        /\ response[i].before > 0 /\ response[i].after > 0
        /\ response[i].mid = "count" /\ response[i].n = 42000000
        /\ result[i] = Num(42000000)

(***************************************************************************)
(* Properties of the empty password and of the crack time (CalcSpec)       *)
(***************************************************************************)
DurationUnits == {"min", "hrs", "days", "mo", "yrs", "k yrs", "M yrs", "B yrs", "T yrs"}
SeverityTiers == {"tier-1", "tier-2", "tier-3", "tier-4", "tier-5"}

\* C9: for the empty password the score is the distinct no-score result: the
\* entropy is undefined, the strength label and tier are the undefined result,
\* and every crack-time cell is neutral: not "Instant", not a duration and not
\* a severity tier.
C9_EmptyPasswordNoScore ==
    (call.fn = "score" /\ Len(call.args.password) = 0)
    => /\ call.ret.entropy = Undefined
       /\ call.ret.strengthLabel = "-"
       /\ call.ret.strengthTier = ""
       /\ \A k \in hashAlgorithms, n \in gpuScales :
             LET cell == call.ret.crackTimeMatrix[k, n]
             IN  /\ cell.text.unit # "Instant"
                 /\ cell.text.unit \notin DurationUnits
                 /\ cell.tier \notin SeverityTiers

\* C10: calculateCrackTime returns 0 whenever the entropy is 0 or undefined,
\* for every hash key and every attacker scale.
C10_ZeroOrUndefinedGivesZero ==
    (/\ call.fn = "calculateCrackTime"
     /\ call.args.entropy \in {Num(0), Undefined})
    => call.ret = SecZero

(***************************************************************************)
(* Properties of the scoring functions, continued (CalcSpec)               *)
(***************************************************************************)
IsCrackTimeCall == call.fn = "calculateCrackTime"

\* C11: for every hash key that is not a key of hashRates, calculateCrackTime
\* does not throw and returns exactly what it returns for "sha512" with the
\* same entropy and gpuCount.
C11_UnknownKeyFallsBack ==
    (/\ IsCrackTimeCall
     /\ call.args.hashKey \notin DOMAIN hashRates
     /\ IsNum(call.args.entropy))
    => /\ ~call.threw
       /\ call.ret = calculateCrackTime(call.args.entropy, "sha512", call.args.gpuCount)

\* C12: a negative breachCount is rejected by calculatePenalizedEntropy: the
\* call throws instead of returning a PenalizedEntropyResult.
C12_NegativeCountRejected ==
    (/\ IsPenalizeCall
     /\ IsNum(call.args.breachCount) /\ call.args.breachCount.v < 0)
    => call.threw

\* C13: when originalEntropy is NaN or undefined, the entropy returned by
\* calculatePenalizedEntropy is NaN or undefined for every breachCount >= 0,
\* never zero or any other number.
C13_NoScorePropagates ==
    (/\ IsPenalizeCall
     /\ call.args.originalEntropy \in {NaN, Undefined}
     /\ IsNum(call.args.breachCount) /\ call.args.breachCount.v >= 0)
    => /\ ~call.threw
       /\ call.ret.entropy \in {NaN, Undefined}

\* the undefined entropy of an empty password meets a positive breach count
C13_Witness ==
    /\ IsPenalizeCall
    /\ call.args.originalEntropy = Undefined
    /\ call.args.breachCount = Num(10000)
    /\ call.ret.entropy = NaN

\* the five severity tiers and the six strength labels, weakest first
TierOrder == <<"tier-1", "tier-2", "tier-3", "tier-4", "tier-5">>
TierRank(tier) == CHOOSE i \in 1..Len(TierOrder) : TierOrder[i] = tier
LabelOrder == <<"Very Weak", "Weak", "Moderate", "Strong", "Very Strong", "Excellent">>
LabelRank(label) == CHOOSE i \in 1..Len(LabelOrder) : LabelOrder[i] = label
StrengthLabels == {LabelOrder[i] : i \in 1..Len(LabelOrder)}

IsTimeTierCall == call.fn = "getCrackTimeTier"
NonNegative(sec) == sec.t \in {"zero", "pos"}

\* C14: getCrackTimeTier maps every seconds value >= 0 to one of tier-1 ..
\* tier-5, and for s1 <= s2 the tier of s2 is never weaker than that of s1.
C14_TierMonotone ==
    (IsTimeTierCall /\ NonNegative(call.args.seconds))
    => /\ call.ret \in SeverityTiers
       /\ \A s1 \in SecondsInputs :
             SecLe(s1, call.args.seconds)
             => /\ getCrackTimeTier(s1) \in SeverityTiers
                /\ TierRank(getCrackTimeTier(s1)) <= TierRank(call.ret)

\* a duration just past the one-year cutoff is in tier-3, above tier-1 of 0 s
C14_Witness ==
    /\ IsTimeTierCall
    /\ call.args.seconds = Sec(Lg(31557600, 0) + 1)
    /\ call.ret = "tier-3"
    /\ getCrackTimeTier(SecZero) = "tier-1"

IsStrengthLabelCall == call.fn = "getStrengthLabel"
IsStrengthTierCall == call.fn = "getStrengthTier"
NonNegativeEntropy(e) == IsNum(e) /\ e.v >= 0
LowerEntropies(e) == {Num(v) : v \in {x \in EntropySamples : x <= e.v}}

\* C15: for non-negative entropies e1 <= e2, neither the label of
\* getStrengthLabel nor the tier of getStrengthTier is lower for e2 than for e1.
C15_StrengthMonotone ==
    /\ (IsStrengthLabelCall /\ NonNegativeEntropy(call.args.entropy))
       => \A e1 \in LowerEntropies(call.args.entropy) :
             LabelRank(getStrengthLabel(e1)) <= LabelRank(call.ret)
    /\ (IsStrengthTierCall /\ NonNegativeEntropy(call.args.entropy))
       => \A e1 \in LowerEntropies(call.args.entropy) :
             TierRank(getStrengthTier(e1)) <= TierRank(call.ret)

\* 36 bits is labelled Moderate, above the Weak of 35.5 bits
C15_Witness ==
    /\ IsStrengthLabelCall
    /\ call.args.entropy = Num(36000)
    /\ call.ret = "Moderate"
    /\ getStrengthLabel(Num(35500)) = "Weak"

BandOrder ==
    <<"Instant", "min", "hrs", "days", "mo", "yrs",
      "k yrs", "M yrs", "B yrs", "T yrs", InfinitySymbol>>
BandRank(unit) == CHOOSE i \in 1..Len(BandOrder) : BandOrder[i] = unit
IsFormatCall == call.fn = "formatCrackTime"

IsCellCall == call.fn = "getCellDisplay"
SixtyTwoBitsMd5TenThousand ==
    /\ IsCellCall
    /\ call.args = [entropy |-> Num(62000), hashKey |-> "md5", gpuCount |-> 10000]

\* C18: with an entropy of 62 bits, the md5 rate and 10,000 GPUs the crack
\* time is formatted in the "days" band.
C18_SixtyTwoBitsMd5Days ==
    SixtyTwoBitsMd5TenThousand => call.ret.text.unit = "days"

\* C19: for every breachCount >= 1,000,000 and every originalEntropy >= 0
\* the frequency is clamped to C, the rank is exactly 1 (its logarithm 0), and
\* calculatePenalizedEntropy returns entropy 0 with isPenalized = true.
C19_AnchorCountGivesZero ==
    (/\ IsPenalizeCall
     /\ NonNegativeEntropy(call.args.originalEntropy)
     /\ IsNum(call.args.breachCount) /\ call.args.breachCount.v >= ZipfC)
    => /\ frequency(call.args.breachCount) = Num(ZipfC)
       /\ rankLog2(frequency(call.args.breachCount)) = Num(0)
       /\ call.ret = [entropy |-> Num(0), isPenalized |-> TRUE]

\* a password of 62 bits seen 42 million times scores 0 bits
C19_Witness ==
    /\ IsPenalizeCall
    /\ call.args.originalEntropy = Num(62000)
    /\ call.args.breachCount = Num(42000000)
    /\ call.ret = [entropy |-> Num(0), isPenalized |-> TRUE]

\* the amount of each unit at which formatCrackTime moves to the next unit
UnitLimit(unit) ==
    CASE unit = "min" -> 60
      [] unit = "hrs" -> 24
      [] unit = "days" -> 30
      [] unit = "mo" -> 12
      [] OTHER -> 1000

\* C20: whenever formatCrackTime renders a number with a unit, the number is
\* at least 1 and strictly below the amount at which the next unit begins.
C20_NumberBelowNextUnit ==
    (/\ IsFormatCall
     /\ NonNegative(call.args.seconds)
     /\ call.ret.unit \in DurationUnits)
    => /\ call.ret.n >= 1
       /\ call.ret.n < UnitLimit(call.ret.unit)

(***************************************************************************)
(* Properties of the breach lookup, continued (Spec)                       *)
(***************************************************************************)
\* C21: checkHIBP called with the empty password returns 0 without computing
\* a digest and without issuing a request: once called, the lookup is done
\* with result 0, no digest, no request sent and no response received.
C21_EmptyPasswordNoDigestNoRequest ==
    \A i \in Lookups :
        (pc[i] # "idle" /\ Len(password[i]) = 0)
        => /\ Done(i)
           /\ result[i] = Num(0) /\ ~threw[i]
           /\ hashHex[i] = <<>>
           /\ ~request[i].sent
           /\ response[i] = NoResponse

\* the empty password returned 0 with nothing sent, while the other lookup
\* has hashed its password and sent its range request
C21_Witness ==
    \E i, j \in Lookups :
        /\ i # j
        /\ Done(i) /\ Len(password[i]) = 0
        /\ result[i] = Num(0) /\ ~request[i].sent /\ hashHex[i] = <<>>
        /\ Len(password[j]) > 0 /\ request[j].sent /\ Len(hashHex[j]) = 40

====
